---- MODULE Spec2Model ----
(***************************************************************************)
(* Model of src/controller/promt.controller.js: the retry loop of          *)
(* callGeminiAPI and the turn handler sendPromt.                           *)
(*                                                                         *)
(* A turn is one invocation of sendPromt.  Each turn has its request       *)
(* (req), the answers the completion endpoint gives to its successive      *)
(* fetch calls (endpoint), its position in the handler (pc), the loop      *)
(* counter of callGeminiAPI (i) and the locals of the handler.  The        *)
(* message store is shared by all turns.                                   *)
(***************************************************************************)
EXTENDS Integers, Sequences, FiniteSets, TLC

MAX_RETRIES == 5

\* Bounds of the model.
NumTurns == 2
MaxContentLen == 2

(***************************************************************************)
(* JavaScript values.  A string is a sequence of one-character strings.    *)
(***************************************************************************)
Undefined == [type |-> "undefined"]
Str(s) == [type |-> "string", chars |-> s]
Num(n) == [type |-> "number", value |-> n]

\* !v
Falsy(v) ==
    \/ v.type = "undefined"
    \/ v.type = "string" /\ v.chars = <<>>
    \/ v.type = "number" /\ v.value = 0

IsWhite(c) == c = " "

RECURSIVE TrimStart(_)
TrimStart(s) ==
    IF s /= <<>> /\ IsWhite(Head(s)) THEN TrimStart(Tail(s)) ELSE s

RECURSIVE TrimEnd(_)
TrimEnd(s) ==
    IF s /= <<>> /\ IsWhite(s[Len(s)]) THEN TrimEnd(SubSeq(s, 1, Len(s) - 1)) ELSE s

\* A trim that strips nothing: the content is compared as submitted.
TrimNothing(s) == s

\* String.prototype.trim
Trim(s) == TrimEnd(TrimStart(s))

(***************************************************************************)
(* Error messages are sequences of tokens; punctuation that follows a word *)
(* is a token of its own, so that includes() sees the word.                *)
(***************************************************************************)
\* String.prototype.includes
Includes(msg, needle) ==
    \E k \in 1..(Len(msg) - Len(needle) + 1) :
        SubSeq(msg, k, k + Len(needle) - 1) = needle

Err(name, message) == [name |-> name, message |-> message]
NoError == Err("none", <<>>)

RetriesExhausted(status, errorText) ==
    Err("Error", <<"Gemini", "API", "call", "failed", "after", ToString(MAX_RETRIES),
                   "attempts", ".", "Status", ":", ToString(status), ".",
                   "Body", ":", errorText>>)

ClientError(status, errorBody) ==
    Err("Error", <<"Gemini", "API", "Client", "Error", ":", ToString(status), "-", errorBody>>)

ContentMissing ==
    Err("Error", <<"Gemini", "API", "response", "successful", "but", "generated", "content",
                   "text", "is", "missing", "or", "was", "blocked", ".">>)

FallbackError ==
    Err("Error", <<"Failed", "to", "get", "response", "from", "Gemini", "API", ".">>)

\* What fetch rejects with on a transport failure.
FetchError == Err("TypeError", <<"fetch", "failed">>)

\* What response.json() rejects with on a body that is not JSON.
JsonError == Err("SyntaxError", <<"Unexpected", "token", "in", "JSON">>)

\* What Promt.create rejects with.
StorageError == Err("MongooseError", <<"Promt", "validation", "failed">>)

GenericMessage == <<"Something", "went", "wrong", "with", "the", "AI", "response", ".">>
RequiredMessage == <<"Promt", "content", "is", "required">>

(***************************************************************************)
(* The completion endpoint.  An answer to one fetch is a transport failure *)
(* or a response with a status and a body; a body is JSON or not, and a    *)
(* JSON body has a generated text at candidates[0].content.parts[0].text   *)
(* or none.                                                                *)
(***************************************************************************)
NetFail == [net |-> FALSE]
Resp(status, body) == [net |-> TRUE, status |-> status, body |-> body]
Body(raw, json, text) == [raw |-> raw, json |-> json, text |-> text]

Hello == Str(<<"h", "i">>)

R429 == Resp(429, Body("{rate}", TRUE, Undefined))
R503 == Resp(503, Body("<html>", FALSE, Undefined))
R400 == Resp(400, Body("{bad}", TRUE, Undefined))
R404 == Resp(404, Body("<html>", FALSE, Undefined))
ROk == Resp(200, Body("{hi}", TRUE, Hello))
RNoText == Resp(200, Body("{}", TRUE, Undefined))
REmptyText == Resp(200, Body("{''}", TRUE, Str(<<>>)))

Answers == {NetFail, R429, R503, R400, R404, ROk, RNoText, REmptyText}

\* A success test that accepts 201 only.
OkCreatedOnly(response) == response.status = 201

\* response.ok
Ok(response) == response.status >= 200 /\ response.status <= 299

\* A retry condition that takes every status from 400 up as retryable.
RetryableAnyError(response) == response.status >= 400

\* response.status === 429 || (response.status >= 500 && response.status < 600)
Retryable(response) ==
    response.status = 429 \/ (response.status >= 500 /\ response.status < 600)

\* Math.random() * 500, in whole milliseconds
Jitters == {0, 499}

RECURSIVE Pow2(_)
Pow2(n) == IF n = 0 THEN 1 ELSE 2 * Pow2(n - 1)

\* A backoff that grows linearly instead of exponentially.
DelayLinear(n, jitter) == (n + 1) * 1000 + jitter

\* A backoff whose exponent starts at 1 instead of 0.
DelayFromOne(n, jitter) == Pow2(n + 1) * 1000 + jitter

\* Math.pow(2, i) * 1000 + Math.random() * 500
Delay(n, jitter) == Pow2(n) * 1000 + jitter


(***************************************************************************)
(* callGeminiAPI: one iteration of the retry loop.                         *)
(***************************************************************************)
Throw(error) == [kind |-> "throw", error |-> error]
Return(value) == [kind |-> "return", value |-> value]
Sleep(ms) == [kind |-> "sleep", ms |-> ms]
Continue == [kind |-> "continue"]

\* for (...; i < MAX_RETRIES; ...)
LoopCond(n) == n < MAX_RETRIES

\* The guard of the backoff, off by one: the last attempt waits too.
MayRetryOffByOne(n) == n < MAX_RETRIES

\* i < MAX_RETRIES - 1, the guard of the backoff
MayRetry(n) == n < MAX_RETRIES - 1

\* The guard of the re-throw, off by one: no attempt of the loop is the last.
LastAttemptOffByOne(n) == n = MAX_RETRIES

\* i === MAX_RETRIES - 1, the guard of the re-throw
LastAttempt(n) == n = MAX_RETRIES - 1

\* await response.json()
Json(response) ==
    IF response.body.json THEN Return(response.body) ELSE Throw(JsonError)

\* result.candidates?.[0]?.content?.parts?.[0]?.text
TextOf(result) == result.text

\* The statements of the try block, from the fetch to the return.
TryBlock(answer, n, jitter) ==
    IF ~answer.net THEN Throw(FetchError)
    ELSE IF Retryable(answer) THEN
        IF MayRetry(n) THEN Sleep(Delay(n, jitter))
        ELSE Throw(RetriesExhausted(answer.status, answer.body.raw))
    ELSE IF ~Ok(answer) THEN
        IF Json(answer).kind = "throw" THEN Json(answer)
        ELSE Throw(ClientError(answer.status, Json(answer).value.raw))
    ELSE IF Json(answer).kind = "throw" THEN Json(answer)
    ELSE IF Falsy(TextOf(Json(answer).value)) THEN Throw(ContentMissing)
    ELSE Return(TextOf(Json(answer).value))

\* A catch block that swallows the error on every attempt.
CatchBlockSwallow(error, n) == Continue

\* catch (error) { if (i === MAX_RETRIES - 1) throw error; }
CatchBlock(error, n) ==
    IF LastAttempt(n) THEN Throw(error) ELSE Continue

\* One pass through the loop body: the try block, then the catch block.
Iteration(answer, n, jitter) ==
    IF TryBlock(answer, n, jitter).kind = "throw"
    THEN CatchBlock(TryBlock(answer, n, jitter).error, n)
    ELSE TryBlock(answer, n, jitter)

(***************************************************************************)
(* State.                                                                  *)
(***************************************************************************)
VARIABLES
    req,        \* req[t]: the request of turn t, [content, userId]
    endpoint,   \* endpoint[t][k]: the endpoint's answer to the k-th fetch of turn t
    pc,         \* pc[t]: where turn t is in sendPromt / callGeminiAPI
    i,          \* i[t]: the loop counter of callGeminiAPI
    log,        \* log[t]: the fetch calls and the timers of turn t, in order
    clock,      \* clock[t]: the milliseconds turn t has spent in its timers
    aiContent,  \* aiContent[t]: what callGeminiAPI returned
    error,      \* error[t]: the error caught by sendPromt (or escaping it)
    res,        \* res[t]: the response sent
    userPromt,  \* userPromt[t]: position in the store of the user Message, 0 if none
    aiMessage,  \* aiMessage[t]: position in the store of the assistant Message, 0 if none
    store       \* the Promt collection, in creation order

vars == <<req, endpoint, pc, i, log, clock, aiContent, error, res, userPromt, aiMessage, store>>

Turns == DOMAIN pc

NoResponse == [status |-> 0, body |-> [none |-> TRUE]]
Json400 == [status |-> 400, body |-> [errors |-> RequiredMessage]]
Json200(reply) == [status |-> 200, body |-> [reply |-> reply]]
Json500(message) == [status |-> 500, body |-> [error |-> message]]

FetchEv(n) == [ev |-> "fetch", arg |-> n]
SleepEv(ms) == [ev |-> "sleep", arg |-> ms]

Fetches(t) == {k \in 1..Len(log[t]) : log[t][k].ev = "fetch"}
Sleeps(t) == {k \in 1..Len(log[t]) : log[t][k].ev = "sleep"}

\* The endpoint's answer to the next fetch of turn t.
NextAnswer(t) ==
    LET k == Cardinality(Fetches(t)) + 1
    IN  IF k <= Len(endpoint[t]) THEN endpoint[t][k] ELSE endpoint[t][Len(endpoint[t])]

\* A document that takes the role of an assistant whatever role is given.
MessageAsAssistant(userId, role, content) ==
    [userId |-> userId, role |-> "assistant", content |-> content]

\* A document that drops the content it is given.
MessageNoContent(userId, role, content) ==
    [userId |-> userId, role |-> role, content |-> Str(<<>>)]

\* Promt.create({ userId, role, content }): the document
Message(userId, role, content) == [userId |-> userId, role |-> role, content |-> content]

\* Promt.create: the collection after the document is inserted
Create(collection, doc) == Append(collection, doc)

\* Where the loop goes after i++: the next iteration, or past the loop.
AfterIncrement(t, n) ==
    IF LoopCond(n)
    THEN /\ pc' = [pc EXCEPT ![t] = "fetch"]
         /\ error' = error
    ELSE /\ pc' = [pc EXCEPT ![t] = "catch"]
         /\ error' = [error EXCEPT ![t] = FallbackError]

(***************************************************************************)
(* sendPromt                                                               *)
(***************************************************************************)
\* const { content } = req.body; if (!content || content.trim() === "") ...
Validate(t) ==
    /\ pc[t] = "validate"
    /\ LET content == req[t].content IN
       IF Falsy(content) THEN
            /\ res' = [res EXCEPT ![t] = Json400]
            /\ pc' = [pc EXCEPT ![t] = "done"]
            /\ error' = error
       ELSE IF content.type /= "string" THEN
            \* content.trim is not a function: thrown before the try block
            /\ error' = [error EXCEPT ![t] = Err("TypeError", <<"content", ".", "trim", "is", "not", "a", "function">>)]
            /\ pc' = [pc EXCEPT ![t] = "rejected"]
            /\ res' = res
       ELSE IF Trim(content.chars) = <<>> THEN
            /\ res' = [res EXCEPT ![t] = Json400]
            /\ pc' = [pc EXCEPT ![t] = "done"]
            /\ error' = error
       ELSE
            /\ pc' = [pc EXCEPT ![t] = "createUser"]
            /\ UNCHANGED <<res, error>>
    /\ UNCHANGED <<req, endpoint, i, log, clock, aiContent, userPromt, aiMessage, store>>

\* A handler that notes the failure of the first write and calls the API all the same.
CreateUserUnchecked(t) ==
    /\ pc[t] = "createUser"
    /\ \E saved \in BOOLEAN :
        IF saved THEN
            /\ store' = Create(store, Message(req[t].userId, "user", req[t].content))
            /\ userPromt' = [userPromt EXCEPT ![t] = Len(store')]
            /\ error' = error
        ELSE
            /\ error' = [error EXCEPT ![t] = StorageError]
            /\ UNCHANGED <<store, userPromt>>
    /\ i' = [i EXCEPT ![t] = 0]
    /\ pc' = [pc EXCEPT ![t] = "fetch"]
    /\ UNCHANGED <<req, endpoint, log, clock, aiContent, res, aiMessage>>

\* await Promt.create({ userId, role: "user", content }), then the call of callGeminiAPI
CreateUser(t) ==
    /\ pc[t] = "createUser"
    /\ \E saved \in BOOLEAN :
        IF saved THEN
            /\ store' = Create(store, Message(req[t].userId, "user", req[t].content))
            /\ userPromt' = [userPromt EXCEPT ![t] = Len(store')]
            /\ i' = [i EXCEPT ![t] = 0]
            /\ pc' = [pc EXCEPT ![t] = "fetch"]
            /\ error' = error
        ELSE
            /\ error' = [error EXCEPT ![t] = StorageError]
            /\ pc' = [pc EXCEPT ![t] = "catch"]
            /\ UNCHANGED <<store, userPromt, i>>
    /\ UNCHANGED <<req, endpoint, log, clock, aiContent, res, aiMessage>>

\* One iteration of the loop of callGeminiAPI, up to its return, its throw,
\* the start of its timer, or the next iteration.
Attempt(t) ==
    /\ pc[t] = "fetch"
    /\ \E jitter \in Jitters :
        LET out == Iteration(NextAnswer(t), i[t], jitter) IN
        /\ log' = [log EXCEPT ![t] =
                IF out.kind = "sleep"
                THEN log[t] \o <<FetchEv(i[t] + 1), SleepEv(out.ms)>>
                ELSE Append(log[t], FetchEv(i[t] + 1))]
        /\ IF out.kind = "return" THEN
                /\ aiContent' = [aiContent EXCEPT ![t] = out.value]
                /\ pc' = [pc EXCEPT ![t] = "createAssistant"]
                /\ UNCHANGED <<i, error>>
           ELSE IF out.kind = "throw" THEN
                /\ error' = [error EXCEPT ![t] = out.error]
                /\ pc' = [pc EXCEPT ![t] = "catch"]
                /\ UNCHANGED <<i, aiContent>>
           ELSE IF out.kind = "sleep" THEN
                /\ pc' = [pc EXCEPT ![t] = "backoff"]
                /\ UNCHANGED <<i, aiContent, error>>
           ELSE
                /\ i' = [i EXCEPT ![t] = i[t] + 1]
                /\ AfterIncrement(t, i[t] + 1)
                /\ aiContent' = aiContent
    /\ UNCHANGED <<req, endpoint, clock, res, userPromt, aiMessage, store>>

\* setTimeout(resolve, delay): the timer set last
Timer(t) == log[t][Len(log[t])].arg

\* The timer of the backoff fires: continue
Backoff(t) ==
    /\ pc[t] = "backoff"
    /\ i' = [i EXCEPT ![t] = i[t] + 1]
    /\ AfterIncrement(t, i[t] + 1)
    /\ clock' = [clock EXCEPT ![t] = clock[t] + Timer(t)]
    /\ UNCHANGED <<req, endpoint, log, aiContent, res, userPromt, aiMessage, store>>

\* A handler that writes the reply over the turn's user Message instead of creating one.
CreateAssistantUpdate(t) ==
    /\ pc[t] = "createAssistant"
    /\ \E saved \in BOOLEAN :
        IF saved THEN
            /\ store' = [store EXCEPT ![userPromt[t]] =
                            Message(req[t].userId, "assistant", aiContent[t])]
            /\ aiMessage' = [aiMessage EXCEPT ![t] = userPromt[t]]
            /\ res' = [res EXCEPT ![t] = Json200(aiContent[t])]
            /\ pc' = [pc EXCEPT ![t] = "done"]
            /\ error' = error
        ELSE
            /\ error' = [error EXCEPT ![t] = StorageError]
            /\ pc' = [pc EXCEPT ![t] = "catch"]
            /\ UNCHANGED <<store, aiMessage, res>>
    /\ UNCHANGED <<req, endpoint, i, log, clock, aiContent, userPromt>>

\* await Promt.create({ userId, role: "assistant", content: aiContent }), then the reply
CreateAssistant(t) ==
    /\ pc[t] = "createAssistant"
    /\ \E saved \in BOOLEAN :
        IF saved THEN
            /\ store' = Create(store, Message(req[t].userId, "assistant", aiContent[t]))
            /\ aiMessage' = [aiMessage EXCEPT ![t] = Len(store')]
            /\ res' = [res EXCEPT ![t] = Json200(aiContent[t])]
            /\ pc' = [pc EXCEPT ![t] = "done"]
            /\ error' = error
        ELSE
            /\ error' = [error EXCEPT ![t] = StorageError]
            /\ pc' = [pc EXCEPT ![t] = "catch"]
            /\ UNCHANGED <<store, aiMessage, res>>
    /\ UNCHANGED <<req, endpoint, i, log, clock, aiContent, userPromt>>

\* A catch block that always answers with the generic message.
ErrorMessageGeneric(e) == GenericMessage

\* error.message.includes("Gemini API") ? error.message : "Something went wrong ..."
ErrorMessage(e) ==
    IF Includes(e.message, <<"Gemini", "API">>) THEN e.message ELSE GenericMessage

\* A catch block that calls callGeminiAPI again when the completion has failed.
CatchRetry(t) ==
    /\ pc[t] = "catch"
    /\ IF error[t] = StorageError
       THEN /\ res' = [res EXCEPT ![t] = Json500(ErrorMessage(error[t]))]
            /\ pc' = [pc EXCEPT ![t] = "done"]
            /\ UNCHANGED <<i, error>>
       ELSE /\ i' = [i EXCEPT ![t] = 0]
            /\ error' = [error EXCEPT ![t] = NoError]
            /\ pc' = [pc EXCEPT ![t] = "fetch"]
            /\ res' = res
    /\ UNCHANGED <<req, endpoint, log, clock, aiContent, userPromt, aiMessage, store>>

\* A catch block that compensates: it deletes the turn's user Message.
CatchRollback(t) ==
    /\ pc[t] = "catch"
    /\ res' = [res EXCEPT ![t] = Json500(ErrorMessage(error[t]))]
    /\ pc' = [pc EXCEPT ![t] = "done"]
    /\ store' = IF userPromt[t] = 0 THEN store
                ELSE SubSeq(store, 1, userPromt[t] - 1) \o SubSeq(store, userPromt[t] + 1, Len(store))
    /\ UNCHANGED <<req, endpoint, i, log, clock, aiContent, error, userPromt, aiMessage>>

\* The catch block of sendPromt
Catch(t) ==
    /\ pc[t] = "catch"
    /\ res' = [res EXCEPT ![t] = Json500(ErrorMessage(error[t]))]
    /\ pc' = [pc EXCEPT ![t] = "done"]
    /\ UNCHANGED <<req, endpoint, i, log, clock, aiContent, error, userPromt, aiMessage, store>>

Next ==
    \/ \E t \in Turns : Validate(t)
    \/ \E t \in Turns : CreateUser(t)
    \/ \E t \in Turns : Attempt(t)
    \/ \E t \in Turns : Backoff(t)
    \/ \E t \in Turns : CreateAssistant(t)
    \/ \E t \in Turns : Catch(t)

(***************************************************************************)
(* Initial states: the turns in flight, their requests and the endpoint's  *)
(* answers to each.                                                        *)
(***************************************************************************)
InitWith(T, Requests, Scripts) ==
    /\ req \in [T -> Requests]
    /\ endpoint \in [T -> Scripts]
    /\ pc = [t \in T |-> "validate"]
    /\ i = [t \in T |-> 0]
    /\ log = [t \in T |-> <<>>]
    /\ clock = [t \in T |-> 0]
    /\ aiContent = [t \in T |-> Undefined]
    /\ error = [t \in T |-> NoError]
    /\ res = [t \in T |-> NoResponse]
    /\ userPromt = [t \in T |-> 0]
    /\ aiMessage = [t \in T |-> 0]
    /\ store = <<>>

Users == {"u1", "u2"}

RECURSIVE Strings(_)
Strings(n) ==
    IF n = 0 THEN {<<>>}
    ELSE Strings(n - 1) \cup {Append(s, c) : s \in Strings(n - 1), c \in {" ", "a"}}

Contents == {Undefined, Num(7)} \cup {Str(s) : s \in Strings(MaxContentLen)}

Always(a) == [k \in 1..MAX_RETRIES |-> a]
Then(first, rest) == [k \in 1..MAX_RETRIES |-> IF k = 1 THEN first ELSE rest]

Scenarios == {Always(ROk), Then(R429, ROk), Always(R400)}

\* One turn: a prompt against every sequence of answers of the endpoint, or
\* any content for either user against the scenarios.
Init ==
    \/ InitWith({1}, [content : {Str(<<"a">>)}, userId : {"u1"}], [1..MAX_RETRIES -> Answers])
    \/ InitWith({1}, [content : Contents, userId : Users], Scenarios)

Spec == Init /\ [][Next]_vars

\* Concurrent turns of one or two users, with a blank or a non-blank prompt.
InitTurns ==
    InitWith(1..NumTurns, [content : {Str(<<" ">>), Str(<<"a">>)}, userId : Users], Scenarios)

SpecTurns == InitTurns /\ [][Next]_vars

(***************************************************************************)
(* Properties of callGeminiAPI.                                            *)
(***************************************************************************)
NumFetches(t) == Cardinality(Fetches(t))
NumSleeps(t) == Cardinality(Sleeps(t))

\* callGeminiAPI was called by turn t and has returned or thrown.
CallEnded(t) == log[t] /= <<>> /\ pc[t] \in {"createAssistant", "catch", "done"}
CallReturned(t) == CallEnded(t) /\ aiContent[t] /= Undefined
CallThrew(t) == CallEnded(t) /\ aiContent[t] = Undefined

\* The classes of answers.
Transient(a) == ~a.net \/ a.status = 429 \/ a.status \in 500..599
Terminal(a) == a.net /\ a.status \notin 200..299 /\ ~Transient(a)
NoText(a) == a.net /\ a.status \in 200..299 /\ a.body.text \in {Undefined, Str(<<>>)}
HasText(a) == a.net /\ a.status \in 200..299 /\ a.body.text \notin {Undefined, Str(<<>>)}

\* C1: when the first attempt is answered with a non-success status that is
\* neither 429 nor 5xx, the call fails with the ClientError of that status and
\* body after exactly one request: no further attempt, no wait.
C1_TerminalStatusFailsAtOnce ==
    \A t \in Turns :
        (log[t] /= <<>> /\ Terminal(endpoint[t][1]) /\ endpoint[t][1].body.json) =>
            /\ NumFetches(t) = 1
            /\ NumSleeps(t) = 0
            /\ pc[t] \in {"catch", "done"}
            /\ error[t] = ClientError(endpoint[t][1].status, endpoint[t][1].body.raw)

\* C2: when attempt k receives a 2xx response without generated text, the call
\* fails with ContentMissing without retrying: k requests are issued in all.
C2_MissingContentFailsAtOnce ==
    \A t \in Turns : \A k \in 1..NumFetches(t) :
        NoText(endpoint[t][k]) =>
            /\ NumFetches(t) = k
            /\ pc[t] \in {"catch", "done"}
            /\ error[t] = ContentMissing

All429(t) == \A k \in 1..MAX_RETRIES : endpoint[t][k].net /\ endpoint[t][k].status = 429

\* C3: a call issues at most 5 requests; when all five attempts are answered
\* 429 the call fails with RetriesExhausted after exactly 5 requests and 4 waits.
C3_AtMostFiveRequests ==
    \A t \in Turns :
        /\ NumFetches(t) <= 5
        /\ (All429(t) /\ pc[t] \in {"createAssistant", "catch", "done"} /\ userPromt[t] /= 0) =>
            /\ CallThrew(t)
            /\ error[t] = RetriesExhausted(429, endpoint[t][5].body.raw)
            /\ NumFetches(t) = 5
            /\ NumSleeps(t) = 4

C3_Witness ==
    \E t \in Turns : All429(t) /\ CallThrew(t) /\ NumFetches(t) = 5 /\ pc[t] = "done"

FourThenText(t) ==
    /\ \A k \in 1..4 : endpoint[t][k].net /\ endpoint[t][k].status = 429
    /\ HasText(endpoint[t][5])

RECURSIVE SumArgs(_)
SumArgs(events) == IF events = <<>> THEN 0 ELSE Head(events).arg + SumArgs(Tail(events))

\* C4: 429 on attempts 1 to 4 and 200 with text on attempt 5: the call returns
\* that text on the 5th attempt after four waits, one between each pair of
\* consecutive attempts, and the time waited is the sum of the four delays
\* 2^k * 1000 + jitter, k = 0..3.
C4_FourWaitsThenSuccess ==
    \A t \in Turns :
        (FourThenText(t) /\ pc[t] \in {"createAssistant", "catch", "done"} /\ userPromt[t] /= 0) =>
            /\ CallReturned(t)
            /\ aiContent[t] = endpoint[t][5].body.text
            /\ Len(log[t]) = 9
            /\ \A k \in 1..5 : log[t][2 * k - 1] = FetchEv(k)
            /\ \A k \in 1..4 :
                /\ log[t][2 * k].ev = "sleep"
                /\ log[t][2 * k].arg - (2 ^ (k - 1)) * 1000 \in 0..499
            /\ clock[t] = SumArgs(SelectSeq(log[t], LAMBDA e : e.ev = "sleep"))
            /\ clock[t] \in 15000..(15000 + 4 * 499)

C4_Witness ==
    \E t \in Turns : FourThenText(t) /\ CallReturned(t) /\ pc[t] = "done" /\ clock[t] > 15000

AllTransient(t) == \A k \in 1..MAX_RETRIES : Transient(endpoint[t][k])

IsRetriesExhausted(e) ==
    \E a \in Answers : a.net /\ e = RetriesExhausted(a.status, a.body.raw)

\* C5 as stated: when all 5 attempts end in a transient outcome (429, 5xx or
\* a transport failure), the call fails with RetriesExhausted.
C5_AllTransientExhausts ==
    \A t \in Turns :
        (AllTransient(t) /\ pc[t] \in {"createAssistant", "catch", "done"} /\ userPromt[t] /= 0) =>
            CallThrew(t) /\ IsRetriesExhausted(error[t])

\* C5 as amended: when all 5 attempts end in a transient outcome, the call
\* fails after the 5th request: with RetriesExhausted naming the status and
\* body of the 5th response when that was a 429 or 5xx response, and with the
\* transport error itself when the 5th attempt was a transport failure.
C5_AllTransientFails ==
    \A t \in Turns :
        (AllTransient(t) /\ pc[t] \in {"createAssistant", "catch", "done"} /\ userPromt[t] /= 0) =>
            /\ CallThrew(t)
            /\ NumFetches(t) = 5
            /\ endpoint[t][5].net =>
                    error[t] = RetriesExhausted(endpoint[t][5].status, endpoint[t][5].body.raw)
            /\ ~endpoint[t][5].net => error[t] = FetchError

C5_Witness ==
    \E t \in Turns :
        /\ AllTransient(t) /\ CallThrew(t) /\ pc[t] = "done"
        /\ ~endpoint[t][1].net /\ endpoint[t][2].net /\ endpoint[t][5].net
        /\ endpoint[t][5].status = 503

(***************************************************************************)
(* Properties of sendPromt.                                                *)
(***************************************************************************)
Blank(content) ==
    \/ content = Undefined
    \/ content.type = "string" /\ \A k \in 1..Len(content.chars) : content.chars[k] = " "

NonBlank(content) ==
    content.type = "string" /\ \E k \in 1..Len(content.chars) : content.chars[k] /= " "

\* C6: for every non-blank content, a turn in which both store writes and the
\* completion succeed persists exactly two Messages, the user's with the
\* submitted content and then the assistant's, both with the turn's userId,
\* and responds with success and the assistant Message's content as reply.
C6_SuccessPersistsTwoMessages ==
    \A t \in Turns :
        (aiMessage[t] /= 0 \/ res[t].status = 200) =>
            /\ NonBlank(req[t].content)
            /\ pc[t] = "done"
            /\ Len(store) = 2
            /\ userPromt[t] = 1 /\ aiMessage[t] = 2
            /\ store[1] = [userId |-> req[t].userId, role |-> "user", content |-> req[t].content]
            /\ store[2].userId = req[t].userId
            /\ store[2].role = "assistant"
            /\ store[2].content = endpoint[t][NumFetches(t)].body.text
            /\ res[t] = [status |-> 200, body |-> [reply |-> store[2].content]]

C6_Witness ==
    \E t \in Turns :
        /\ res[t].status = 200 /\ Len(store) = 2
        /\ req[t].content = Str(<<" ", "a">>) /\ req[t].userId = "u2"
        /\ NumFetches(t) = 2

\* C7: for content that is missing, empty or blank after trimming, sendPromt
\* answers 400 with an errors field, persists no Message and issues no request.
C7_BlankContentRejected ==
    \A t \in Turns :
        (Blank(req[t].content) /\ pc[t] /= "validate") =>
            /\ pc[t] = "done"
            /\ res[t].status = 400
            /\ DOMAIN res[t].body = {"errors"}
            /\ store = <<>>
            /\ userPromt[t] = 0 /\ aiMessage[t] = 0
            /\ log[t] = <<>>

C7_Witness ==
    \E t \in Turns : req[t].content = Str(<<" ", " ">>) /\ pc[t] = "done" /\ res[t].status = 400

IsClientError(e) ==
    \E a \in Answers : a.net /\ e = ClientError(a.status, a.body.raw)

\* The turn has failed: its catch block has answered.
Failed(t) == pc[t] = "done" /\ error[t] /= NoError

\* C8 as stated: a turn that fails with RetriesExhausted, ClientError,
\* ContentMissing or the final failure after transport errors answers 500
\* with that error's message; one that fails with a StorageError answers 500
\* with the generic message.
C8_CompletionFailureIsSpecific ==
    \A t \in Turns :
        Failed(t) =>
            /\ res[t].status = 500
            /\ (CallThrew(t) /\ (IsRetriesExhausted(error[t]) \/ IsClientError(error[t])
                                  \/ error[t] = ContentMissing \/ error[t] = FetchError))
                    => res[t].body = [error |-> error[t].message]
            /\ error[t] = StorageError => res[t].body = [error |-> GenericMessage]

\* C8 as amended: a turn that fails with RetriesExhausted, ClientError or
\* ContentMissing answers 500 with that error's message; one that fails with
\* the transport error re-thrown on the 5th attempt, or with a StorageError,
\* answers 500 with the generic message.  No failure answers 200 or 400.
C8_FailureResponse ==
    \A t \in Turns :
        Failed(t) =>
            /\ res[t].status = 500
            /\ DOMAIN res[t].body = {"error"}
            /\ (CallThrew(t) /\ (IsRetriesExhausted(error[t]) \/ IsClientError(error[t])
                                  \/ error[t] = ContentMissing))
                    => res[t].body.error = error[t].message
            /\ (CallThrew(t) /\ error[t] = FetchError)
                    => (NumFetches(t) = 5 /\ res[t].body.error = GenericMessage)
            /\ error[t] = StorageError => res[t].body.error = GenericMessage

C8_Witness ==
    \E t \in Turns :
        /\ Failed(t) /\ CallThrew(t) /\ error[t] = FetchError
        /\ res[t] = [status |-> 500, body |-> [error |-> GenericMessage]]
        /\ \A k \in 1..MAX_RETRIES : ~endpoint[t][k].net

Count(u, role) ==
    Cardinality({k \in 1..Len(store) : store[k].userId = u /\ store[k].role = role})

\* C9: under any interleaving of concurrent turns, a turn's assistant Message
\* is created after its own user Message, so the assistant Messages stored
\* for a user never outnumber the user Messages stored for that user.
C9_AssistantAfterUser ==
    /\ \A t \in Turns :
        aiMessage[t] /= 0 =>
            /\ userPromt[t] /= 0 /\ userPromt[t] < aiMessage[t]
            /\ store[userPromt[t]].role = "user"
            /\ store[aiMessage[t]].role = "assistant"
            /\ store[userPromt[t]].userId = store[aiMessage[t]].userId
    /\ \A u \in Users : Count(u, "assistant") <= Count(u, "user")

C9_Witness ==
    \E t1, t2 \in Turns :
        /\ t1 /= t2 /\ req[t1].userId = req[t2].userId
        /\ userPromt[t1] < userPromt[t2] /\ userPromt[t2] < aiMessage[t1]
        /\ aiMessage[t1] < aiMessage[t2]

\* C10: every attempt but the 5th that ends in a transient outcome (429, 5xx
\* or a transport failure) is followed by exactly one wait before the next
\* request, and no two requests of a call are issued without a wait between.
C10_WaitBetweenRequests ==
    \A t \in Turns : \A k \in 1..Len(log[t]) :
        /\ (k < Len(log[t]) /\ log[t][k].ev = "fetch") => log[t][k + 1].ev = "sleep"
        /\ (k < Len(log[t]) /\ log[t][k].ev = "sleep") => log[t][k + 1].ev = "fetch"
        /\ (log[t][k].ev = "fetch" /\ log[t][k].arg < 5 /\ Transient(endpoint[t][log[t][k].arg]))
                => (k < Len(log[t]) /\ log[t][k + 1].ev = "sleep")

(***************************************************************************)
(* Properties of the backoff.                                              *)
(***************************************************************************)
\* The timers of turn t, in the order they were set.
Waits(t) == SelectSeq(log[t], LAMBDA e : e.ev = "sleep")

\* C11: the wait that follows attempt k + 1 (k = 0..3) lasts d ms with
\* 2^k * 1000 <= d < 2^k * 1000 + 500; the successive waits of a call grow
\* strictly, there are at most 4, and their sum is below 16000 + 500 * n.
C11_BackoffDurations ==
    \A t \in Turns :
        /\ \A p \in Sleeps(t) :
            /\ p > 1 /\ log[t][p - 1].ev = "fetch"
            /\ log[t][p - 1].arg \in 1..4
            /\ log[t][p].arg >= (2 ^ (log[t][p - 1].arg - 1)) * 1000
            /\ log[t][p].arg < (2 ^ (log[t][p - 1].arg - 1)) * 1000 + 500
        /\ \A p, q \in Sleeps(t) : p < q => log[t][p].arg < log[t][q].arg
        /\ NumSleeps(t) <= 4
        /\ SumArgs(Waits(t)) < 16000 + 500 * NumSleeps(t)
        /\ clock[t] <= SumArgs(Waits(t))

C11_Witness ==
    \E t \in Turns :
        /\ NumSleeps(t) = 4
        /\ Waits(t)[1].arg = 1499 /\ Waits(t)[2].arg = 2000
        /\ Waits(t)[4].arg = 8499
        /\ clock[t] = SumArgs(Waits(t))

\* C12: a wait starts only directly after a 429 or 5xx response on an attempt
\* before the 5th: none follows a success, a terminal outcome, a transport
\* failure or the 5th attempt.
C12_WaitOnlyAfterRetryable ==
    \A t \in Turns :
        /\ \A p \in Sleeps(t) :
            /\ p > 1 /\ log[t][p - 1].ev = "fetch"
            /\ log[t][p - 1].arg < 5
            /\ endpoint[t][log[t][p - 1].arg].net
            /\ endpoint[t][log[t][p - 1].arg].status \in {429} \cup 500..599
        /\ pc[t] = "backoff" => (log[t] /= <<>> /\ log[t][Len(log[t])].ev = "sleep")

C12_Witness ==
    \E t \in Turns :
        /\ NumFetches(t) = 5 /\ NumSleeps(t) = 1 /\ CallEnded(t)
        /\ endpoint[t] = <<R400, RNoText, R503, R404, R429>>

\* C13: as soon as an attempt (1..5) receives a 2xx response with a non-empty
\* generated text, the call returns that text: no further request is issued
\* and no further wait starts, whatever the earlier attempts got.
C13_SuccessReturnsAtOnce ==
    \A t \in Turns : \A k \in 1..NumFetches(t) :
        HasText(endpoint[t][k]) =>
            /\ NumFetches(t) = k
            /\ log[t][Len(log[t])] = FetchEv(k)
            /\ CallReturned(t)
            /\ aiContent[t] = endpoint[t][k].body.text

C13_Witness ==
    \E t \in Turns :
        /\ NumFetches(t) = 4 /\ HasText(endpoint[t][4]) /\ CallReturned(t)
        /\ endpoint[t][1] = R400 /\ endpoint[t][2] = NetFail /\ endpoint[t][3] = R429

(***************************************************************************)
(* Failures of a turn.                                                     *)
(***************************************************************************)
\* The write of the user Message of turn t has failed.
UserWriteFailed(t) == error[t] = StorageError /\ userPromt[t] = 0

\* C14: if persisting the user Message fails, no request is sent to the
\* endpoint, no assistant Message is persisted, and the turn ends with the
\* server-error response.
C14_UserWriteFailureStopsTurn ==
    \A t \in Turns :
        UserWriteFailed(t) =>
            /\ log[t] = <<>>
            /\ aiContent[t] = Undefined
            /\ aiMessage[t] = 0
            /\ store = <<>>
            /\ pc[t] \in {"catch", "done"}
            /\ pc[t] = "done" => (res[t].status = 500 /\ DOMAIN res[t].body = {"error"})
            /\ pc[t] = "catch" => res[t] = NoResponse

C14_Witness ==
    \E t \in Turns : UserWriteFailed(t) /\ pc[t] = "done" /\ res[t].status = 500

\* The turn of t has failed after its user Message was persisted: the
\* completion threw, or the write of the assistant Message failed.
FailedAfterUserWrite(t) == userPromt[t] /= 0 /\ error[t] /= NoError

\* C15: if the completion or the write of the assistant Message fails after
\* the user Message was persisted, the user Message stays in the store, the
\* turn has no assistant Message, and the response is the server-error one,
\* never a success reply.
C15_NoRollback ==
    \A t \in Turns :
        FailedAfterUserWrite(t) =>
            /\ store = <<[userId |-> req[t].userId, role |-> "user", content |-> req[t].content]>>
            /\ userPromt[t] = 1
            /\ aiMessage[t] = 0
            /\ pc[t] \in {"catch", "done"}
            /\ pc[t] = "done" => (res[t].status = 500 /\ DOMAIN res[t].body = {"error"})
            /\ pc[t] = "catch" => res[t] = NoResponse

C15_Witness ==
    \E t \in Turns :
        /\ FailedAfterUserWrite(t) /\ pc[t] = "done"
        /\ error[t] = StorageError /\ aiContent[t] = Hello

(***************************************************************************)
(* Concurrent turns.                                                       *)
(***************************************************************************)
\* The store writes of turn t.
Writes(t) == {w \in {userPromt[t], aiMessage[t]} : w /= 0}

\* C16: a turn invokes callGeminiAPI at most once, so it issues at most 5
\* requests, numbered by its own attempt counter, and performs at most 2
\* store writes, whatever the other turns do.
C16_PerTurnBounds ==
    /\ \A t \in Turns :
        /\ NumFetches(t) <= 5
        /\ \A p \in Fetches(t) : log[t][p].arg = Cardinality({q \in Fetches(t) : q <= p})
        /\ pc[t] = "fetch" => i[t] = NumFetches(t)
        /\ pc[t] = "backoff" => i[t] + 1 = NumFetches(t)
    /\ \A t1, t2 \in Turns : t1 /= t2 => Writes(t1) \cap Writes(t2) = {}
    /\ \A k \in 1..Len(store) : \E t \in Turns : k \in Writes(t)

C16_Witness ==
    \E t1, t2 \in Turns :
        /\ t1 /= t2
        /\ NumFetches(t1) = 5 /\ NumFetches(t2) = 3 /\ pc[t2] = "fetch"
        /\ pc[t1] = "done" /\ res[t1].status = 500
        /\ Len(store) = 2

\* The turn of t has stopped: no step of sendPromt is left for it.
Stopped(t) == pc[t] \notin {"validate", "createUser", "fetch", "backoff", "createAssistant", "catch"}

\* C17: every turn ends in exactly one of the success reply, the client-error
\* response and the server-error response: a turn that has stopped has sent
\* one of them.
C17_TurnEndsWithResponse ==
    \A t \in Turns : Stopped(t) => res[t].status \in {200, 400, 500}

\* C18: the store is append-only: no step of any turn changes or deletes a
\* persisted Message; the store of a state extends that of every earlier one.
C18_StoreAppendOnly ==
    [][Len(store') >= Len(store) /\ SubSeq(store', 1, Len(store)) = store]_vars

C18_Witness ==
    /\ Len(store) = 4
    /\ store[1].role = "user" /\ store[2].role = "user"
    /\ store[1].userId /= store[2].userId
    /\ store[3].role = "assistant" /\ store[4].role = "assistant"

\* C19: the throw after the loop of callGeminiAPI is never reached: the loop
\* counter stays below MAX_RETRIES and no turn ever holds the fallback error.
C19_FallbackUnreachable ==
    \A t \in Turns :
        /\ error[t] /= FallbackError
        /\ i[t] < MAX_RETRIES
        /\ (DOMAIN res[t].body = {"error"}) => res[t].body.error /= FallbackError.message

C19_Witness ==
    \E t \in Turns :
        /\ NumFetches(t) = 5 /\ CallThrew(t) /\ i[t] = 4
        /\ \A k \in 1..MAX_RETRIES : ~endpoint[t][k].net \/ endpoint[t][k] = RNoText
        /\ ~endpoint[t][4].net

====
